---- MODULE Spec2Model ----
(***************************************************************************)
(* Model of the volunteer and event management canister, src/src/index.ts. *)
(* Four StableBTreeMap collections and the nine express handlers that read *)
(* and write them.  Every handler runs to completion: one action each.     *)
(*                                                                         *)
(* Text is modelled as a sequence of one-character strings so that the     *)
(* e-mail regular expression, String() coercion and Date parsing and       *)
(* formatting are computed rather than assumed.                            *)
(*                                                                         *)
(* The clock is read by `new Date()` when a record is constructed and has  *)
(* moved on by a millisecond when the next record is constructed; the      *)
(* handlers never read a stored timestamp back.  The catch branches (500)  *)
(* are not reachable: on the bodies express.json() can deliver neither the *)
(* constructors nor insert throw.                                          *)
(***************************************************************************)
EXTENDS Integers, Sequences, FiniteSets, TLC

\* ---------------------------------------------------------------- bounds
\* Size of the pool uuidv4() draws from: the most records ever stored.
MaxIds == 2

Ids == 1..MaxIds

\* ------------------------------------------------------- JSON body values
\* A value of a parsed JSON body (express.json()), or a missing field.
Undefined == [type |-> "undefined", str |-> <<>>, arr |-> <<>>, num |-> 0]
JNull     == [type |-> "null",      str |-> <<>>, arr |-> <<>>, num |-> 0]
JObj      == [type |-> "object",    str |-> <<>>, arr |-> <<>>, num |-> 0]
JStr(s)   == [type |-> "string",    str |-> s,    arr |-> <<>>, num |-> 0]
JNum(n)   == [type |-> "number",    str |-> <<>>, arr |-> <<>>, num |-> n]
JArr(a)   == [type |-> "array",     str |-> <<>>, arr |-> a,    num |-> 0]

\* JavaScript ToBoolean, the test behind `!req.body.x`.
Truthy(v) ==
  CASE v.type = "undefined" -> FALSE
    [] v.type = "null"      -> FALSE
    [] v.type = "string"    -> Len(v.str) > 0
    [] v.type = "number"    -> v.num # 0
    [] OTHER                -> TRUE

\* JavaScript typeof.
TypeOf(v) ==
  CASE v.type = "undefined" -> "undefined"
    [] v.type = "string"    -> "string"
    [] v.type = "number"    -> "number"
    [] OTHER                -> "object"

\* Array.isArray.
IsArray(v) == v.type = "array"

DigitChars == <<"0", "1", "2", "3", "4", "5", "6", "7", "8", "9">>
IsDigit(c) == \E i \in 1..10 : DigitChars[i] = c
DigitVal(c) == (CHOOSE i \in 1..10 : DigitChars[i] = c) - 1

RECURSIVE NatToString(_)
NatToString(n) ==
  IF n < 10 THEN <<DigitChars[n + 1]>>
  ELSE NatToString(n \div 10) \o <<DigitChars[(n % 10) + 1]>>

\* Array.prototype.join(",") over an array of strings.
RECURSIVE Join(_)
Join(a) ==
  IF Len(a) = 0 THEN <<>>
  ELSE IF Len(a) = 1 THEN a[1]
  ELSE a[1] \o <<",">> \o Join(Tail(a))

\* JavaScript ToString, applied by RegExp.prototype.test and by `new Date`
\* to an argument that is not a string.
JsToString(v) ==
  CASE v.type = "string"    -> v.str
    [] v.type = "number"    -> NatToString(v.num)
    [] v.type = "array"     -> Join(v.arr)
    [] v.type = "object"    ->
         <<"[", "o", "b", "j", "e", "c", "t", " ", "O", "b", "j", "e", "c", "t", "]">>
    [] v.type = "null"      -> <<"n", "u", "l", "l">>
    [] OTHER                ->
         <<"u", "n", "d", "e", "f", "i", "n", "e", "d">>

\* JavaScript ===: primitives compare by value.  An array or an object is
\* equal only to itself, and a request body is parsed afresh for every
\* request while stored records are read back out of the stable map, so two
\* such operands are never the same reference.
StrictEquals(a, b) ==
  /\ a.type = b.type
  /\ a.type \in {"undefined", "null", "string", "number"}
  /\ a = b

\* ------------------------------------------------------------ e-mail test
\* The character class [^\s@].
NotSpaceAt(c) == c \notin {" ", "@"}

AllNotSpaceAt(s, from, to) ==
  /\ from <= to
  /\ \A k \in from..to : NotSpaceAt(s[k])

\* /^[^\s@]+@[^\s@]+\.[^\s@]+$/ on a text.
emailRegex(s) ==
  \E i \in 1..Len(s) : \E j \in 1..Len(s) :
    /\ i < j
    /\ s[i] = "@"
    /\ s[j] = "."
    /\ AllNotSpaceAt(s, 1, i - 1)
    /\ AllNotSpaceAt(s, i + 1, j - 1)
    /\ AllNotSpaceAt(s, j + 1, Len(s))

\* emailRegex.test(req.body.email): the argument is coerced to a string.
emailRegexTest(v) == emailRegex(JsToString(v))

\* ------------------------------------------------------------------ dates
\* A JavaScript Date: a time value in milliseconds, or Invalid Date.
InvalidDate == [valid |-> FALSE, ms |-> 0]
ValidDate(ms) == [valid |-> TRUE, ms |-> ms]

MsPerDay == 24 * 60 * 60 * 1000
MsPerHour == 60 * 60 * 1000
MsPerMinute == 60 * 1000
MsPerSecond == 1 * 1000

Pad2(n) == <<DigitChars[(n \div 10) + 1], DigitChars[(n % 10) + 1]>>
Pad3(n) == <<DigitChars[(n \div 100) + 1]>> \o Pad2(n % 100)

Num2(s, k) == 10 * DigitVal(s[k]) + DigitVal(s[k + 1])
Num3(s, k) == 100 * DigitVal(s[k]) + Num2(s, k + 1)
Digits(s, from, to) == \A k \in from..to : IsDigit(s[k])

Jan1970 == <<"1", "9", "7", "0", "-", "0", "1", "-">>

\* The date part YYYY-MM-DD of the ISO format, for days of January 1970.
IsDatePart(s) ==
  /\ Len(s) >= 10
  /\ SubSeq(s, 1, 8) = Jan1970
  /\ Digits(s, 9, 10)
  /\ Num2(s, 9) \in 1..31

\* The time part THH:mm:ss.sssZ of the ISO format.
IsTimePart(s) ==
  /\ Len(s) = 24
  /\ s[11] = "T" /\ s[14] = ":" /\ s[17] = ":" /\ s[20] = "." /\ s[24] = "Z"
  /\ Digits(s, 12, 13) /\ Digits(s, 15, 16) /\ Digits(s, 18, 19)
  /\ Digits(s, 21, 23)
  /\ Num2(s, 12) < 24 /\ Num2(s, 15) < 60 /\ Num2(s, 18) < 60

\* Date.parse on a text: the date-only and the full ISO form are read (the
\* date-only form as UTC midnight); any other text of the model's inputs is
\* not a date.
DateParse(s) ==
  IF IsDatePart(s) /\ Len(s) = 10
    THEN ValidDate((Num2(s, 9) - 1) * MsPerDay)
  ELSE IF IsDatePart(s) /\ IsTimePart(s)
    THEN ValidDate((Num2(s, 9) - 1) * MsPerDay + Num2(s, 12) * MsPerHour
                   + Num2(s, 15) * MsPerMinute + Num2(s, 18) * MsPerSecond
                   + Num3(s, 21))
  ELSE InvalidDate

\* new Date(value): a number is the time value, anything else is converted
\* to a primitive text and parsed.
NewDate(v) ==
  IF v.type = "number" THEN ValidDate(v.num) ELSE DateParse(JsToString(v))

\* Date.prototype.toISOString, for time values within January 1970.
ToISOString(ms) ==
  Jan1970 \o Pad2((ms \div MsPerDay) + 1) \o <<"T">>
    \o Pad2((ms % MsPerDay) \div MsPerHour) \o <<":">>
    \o Pad2((ms % MsPerHour) \div MsPerMinute) \o <<":">>
    \o Pad2((ms % MsPerMinute) \div MsPerSecond) \o <<".">>
    \o Pad3(ms % MsPerSecond) \o <<"Z">>

\* Date.prototype.toJSON, used by res.json: null for Invalid Date.
DateToJSON(d) == IF d.valid THEN JStr(ToISOString(d.ms)) ELSE JNull

\* ----------------------------------------------------------------- inputs
Ann      == <<"A", "n", "n">>
AnnMail  == <<"a", "@", "b", ".", "c">>
BobMail  == <<"d", "@", "e", ".", "f">>
NotMail  == <<"a", "b">>
Phone    == <<"5", "5", "5">>
FirstAid == <<"f", "a">>
Picnic   == <<"P">>
Park     == <<"K">>
Ref      == <<"1">>
Soon     == <<"s", "o", "o", "n">>
Day2     == Jan1970 \o <<"0", "2">>
Day2Iso  == Day2 \o <<"T", "0", "0", ":", "0", "0", ":", "0", "0", ".",
                      "0", "0", "0", "Z">>
Registered == <<"R">>
Attended   == <<"A">>
Fine     == <<"o", "k">>

\* Field values a client may send that are not of the shape section 3 of
\* the specification asks for, and values that are.
NameFaults    == {Undefined, JStr(<<>>), JNum(7)}
EmailFaults   == {Undefined, JStr(<<>>), JStr(NotMail), JArr(<<AnnMail>>),
                  JNum(7)}
EmailShaped   == {JStr(AnnMail), JStr(BobMail)}
ContactFaults == {Undefined, JStr(<<>>), JNum(555)}
SkillsFaults  == {Undefined, JObj}
TextFaults    == {Undefined, JNum(7)}
DateFaults    == {Undefined, JStr(Soon)}
DateShaped    == {JStr(Day2), JStr(Day2Iso)}
StatusShaped  == {JStr(Registered), JStr(Attended)}
RatingFaults  == {Undefined, JNum(0), JStr(<<"5">>)}

\* Request bodies: every field well shaped, or exactly one field not.
ShapedVolunteerBodies ==
  [name : {JStr(Ann)}, email : EmailShaped, contact : {JStr(Phone)},
   skills : {JArr(<<FirstAid>>)}]
VolunteerBase == CHOOSE b \in ShapedVolunteerBodies : b.email = JStr(AnnMail)
VolunteerBodies ==
  ShapedVolunteerBodies
    \cup {[VolunteerBase EXCEPT !.name = v] : v \in NameFaults}
    \cup {[VolunteerBase EXCEPT !.email = v] : v \in EmailFaults}
    \cup {[VolunteerBase EXCEPT !.contact = v] : v \in ContactFaults}
    \cup {[VolunteerBase EXCEPT !.skills = v] : v \in SkillsFaults}

ShapedEventBodies ==
  [title : {JStr(Picnic)}, description : {JStr(Fine)}, dateTime : DateShaped,
   location : {JStr(Park)}, organizerId : {JStr(Ref)}]
EventBase == CHOOSE b \in ShapedEventBodies : b.dateTime = JStr(Day2)
EventBodies ==
  ShapedEventBodies
    \cup {[EventBase EXCEPT !.title = v] : v \in TextFaults}
    \cup {[EventBase EXCEPT !.description = v] : v \in TextFaults}
    \cup {[EventBase EXCEPT !.dateTime = v] : v \in DateFaults}
    \cup {[EventBase EXCEPT !.location = v] : v \in TextFaults}
    \cup {[EventBase EXCEPT !.organizerId = v] : v \in TextFaults}

ShapedRegistrationBodies ==
  [eventId : {JStr(Ref)}, volunteerId : {JStr(Ref)}, status : StatusShaped]
RegistrationBase ==
  CHOOSE b \in ShapedRegistrationBodies : b.status = JStr(Registered)
RegistrationBodies ==
  ShapedRegistrationBodies
    \cup {[RegistrationBase EXCEPT !.eventId = v] : v \in TextFaults}
    \cup {[RegistrationBase EXCEPT !.volunteerId = v] : v \in TextFaults}
    \cup {[RegistrationBase EXCEPT !.status = v] : v \in TextFaults}

ShapedFeedbackBodies ==
  [volunteerId : {JStr(Ref)}, eventId : {JStr(Ref)}, feedback : {JStr(Fine)},
   rating : {JNum(5)}]
FeedbackBase == CHOOSE b \in ShapedFeedbackBodies : TRUE
FeedbackBodies ==
  ShapedFeedbackBodies
    \cup {[FeedbackBase EXCEPT !.volunteerId = v] : v \in TextFaults}
    \cup {[FeedbackBase EXCEPT !.eventId = v] : v \in TextFaults}
    \cup {[FeedbackBase EXCEPT !.feedback = v] : v \in TextFaults}
    \cup {[FeedbackBase EXCEPT !.rating = v] : v \in RatingFaults}

\* Values of the :id path parameter; 0 is an id uuidv4 never returns.
IdParams == 0..MaxIds

\* ------------------------------------------------------------------ state
VARIABLES
  volunteersStorage,     \* StableBTreeMap(0): id -> Volunteer
  eventsStorage,         \* StableBTreeMap(1): id -> Event
  registrationsStorage,  \* StableBTreeMap(2): id -> Registration
  feedbacksStorage,      \* StableBTreeMap(3): id -> Feedback
  now,                   \* the instant the next `new Date()` returns, in ms
  req,                   \* the request handled last
  res,                   \* the response sent to it
  created                \* id -> body and 201 response of the create that made it

storages == <<volunteersStorage, eventsStorage, registrationsStorage,
              feedbacksStorage>>
vars == <<volunteersStorage, eventsStorage, registrationsStorage,
          feedbacksStorage, now, req, res, created>>

\* ------------------------------------------------------------ record types
\* A Volunteer whose constructor takes name and contact in the wrong order.
VolunteerSwapped(id, name, email, contact, skills) ==
  [id |-> id, name |-> contact, email |-> email, contact |-> name,
   skills |-> skills, createdAt |-> ValidDate(now)]

Volunteer(id, name, email, contact, skills) ==
  [id |-> id, name |-> name, email |-> email, contact |-> contact,
   skills |-> skills, createdAt |-> ValidDate(now)]

Event(id, title, description, dateTime, location, organizerId) ==
  [id |-> id, title |-> title, description |-> description,
   dateTime |-> dateTime, location |-> location, organizerId |-> organizerId,
   createdAt |-> ValidDate(now)]

\* A Registration whose constructor stamps attendedAt when the status
\* supplied is 'Attended'.
RegistrationStamped(id, eventId, volunteerId, status) ==
  [id |-> id, eventId |-> eventId, volunteerId |-> volunteerId,
   status |-> status, registeredAt |-> ValidDate(now),
   attendedAt |-> IF status = JStr(Attended)
                    THEN DateToJSON(ValidDate(now)) ELSE JNull]

Registration(id, eventId, volunteerId, status) ==
  [id |-> id, eventId |-> eventId, volunteerId |-> volunteerId,
   status |-> status, registeredAt |-> ValidDate(now), attendedAt |-> JNull]

Feedback(id, volunteerId, eventId, feedback, rating) ==
  [id |-> id, volunteerId |-> volunteerId, eventId |-> eventId,
   feedback |-> feedback, rating |-> rating, createdAt |-> ValidDate(now)]

\* res.json of a record: each Date becomes its toJSON value.
VolunteerJson(v) == [v EXCEPT !.createdAt = DateToJSON(@)]
EventJson(e) ==
  [e EXCEPT !.dateTime = DateToJSON(@), !.createdAt = DateToJSON(@)]
RegistrationJson(r) == [r EXCEPT !.registeredAt = DateToJSON(@)]
FeedbackJson(f) == [f EXCEPT !.createdAt = DateToJSON(@)]

\* ------------------------------------------------------- the durable maps
\* The identifiers in use.
UsedIds ==
  DOMAIN volunteersStorage \cup DOMAIN eventsStorage
    \cup DOMAIN registrationsStorage \cup DOMAIN feedbacksStorage

\* An identifier generator that may return an identifier already in use.
uuidv4Colliding == Ids

\* uuidv4(): an identifier no stored record has.  Identifiers are opaque to
\* the handlers, which only store them and compare them for equality, so the
\* fresh one is named by the least number not in use; none is left once
\* MaxIds records are stored.
uuidv4 == {id \in Ids \ UsedIds : \A other \in Ids \ UsedIds : id <= other}

\* StableBTreeMap.insert: the key is bound to the value.
insert(map, key, value) ==
  [k \in DOMAIN map \cup {key} |-> IF k = key THEN value ELSE map[k]]

\* StableBTreeMap.get: the value under the key, or None.
None == {}
\* A lookup that never finds the key.
getNothing(map, key) == None
get(map, key) == IF key \in DOMAIN map THEN {map[key]} ELSE None

RECURSIVE KeysInOrder(_)
KeysInOrder(S) ==
  IF S = {} THEN <<>>
  ELSE LET least == CHOOSE k \in S : \A other \in S : k <= other
       IN <<least>> \o KeysInOrder(S \ {least})

\* StableBTreeMap.values: the stored values in key order.
values(map) ==
  LET keys == KeysInOrder(DOMAIN map) IN [i \in 1..Len(keys) |-> map[keys[i]]]

\* -------------------------------------------------------------- responses
NoRecord == [id |-> 0]
NoBody == [none |-> Undefined]

Reply(status, error, record, list) ==
  [status |-> status, error |-> error, record |-> record, list |-> list]
Error(status, error) == Reply(status, error, NoRecord, <<>>)
Created(record) == Reply(201, "", record, <<>>)
Found(record) == Reply(200, "", record, <<>>)
Listed(list) == Reply(200, "", NoRecord, list)

Request(op, body, id) == [op |-> op, body |-> body, id |-> id]

Remember(id, body, record) ==
  [k \in DOMAIN created \cup {id} |->
     IF k = id THEN [op |-> req'.op, body |-> body, record |-> record]
     ELSE created[k]]

Init ==
  /\ volunteersStorage = <<>>
  /\ eventsStorage = <<>>
  /\ registrationsStorage = <<>>
  /\ feedbacksStorage = <<>>
  /\ now = 0
  /\ req = Request("none", NoBody, 0)
  /\ res = Error(0, "")
  /\ created = <<>>

\* --------------------------------------------------------- POST /volunteers
VolunteerInputInvalid(body) ==
  \/ ~Truthy(body.name)
  \/ TypeOf(body.name) # "string"
  \/ ~Truthy(body.email)
  \/ ~Truthy(body.contact)
  \/ TypeOf(body.contact) # "string"
  \/ ~Truthy(body.skills)
  \/ ~IsArray(body.skills)

\* A uniqueness scan that compares the names instead of the emails.
existingVolunteerByName(body) ==
  \E k \in DOMAIN volunteersStorage :
    StrictEquals(volunteersStorage[k].name, body.name)

\* existingVolunteers.find(volunteer => volunteer.email === req.body.email)
existingVolunteer(body) ==
  \E k \in DOMAIN volunteersStorage :
    StrictEquals(volunteersStorage[k].email, body.email)

PostVolunteers ==
  \E body \in VolunteerBodies :
    /\ req' = Request("POST /volunteers", body, 0)
    /\ IF VolunteerInputInvalid(body)
         THEN /\ res' = Error(400, "Invalid input: types")
              /\ UNCHANGED <<storages, created, now>>
       ELSE IF ~emailRegexTest(body.email)
         THEN /\ res' = Error(400, "Invalid input: email")
              /\ UNCHANGED <<storages, created, now>>
       ELSE IF existingVolunteer(body)
         THEN /\ res' = Error(400, "Invalid input: same email already exists")
              /\ UNCHANGED <<storages, created, now>>
       ELSE \E id \in uuidv4 :
              LET volunteer == Volunteer(id, body.name, body.email,
                                         body.contact, body.skills)
              IN /\ volunteersStorage' =
                      insert(volunteersStorage, volunteer.id, volunteer)
                 /\ res' = Created(VolunteerJson(volunteer))
                 /\ created' = Remember(id, body, VolunteerJson(volunteer))
                 /\ now' = now + 1
                 /\ UNCHANGED <<eventsStorage, registrationsStorage,
                                feedbacksStorage>>

\* ------------------------------------------------------ GET /volunteers/:id
GetVolunteerById ==
  \E volunteerId \in IdParams :
    LET volunteer == get(volunteersStorage, volunteerId) IN
    /\ req' = Request("GET /volunteers/:id", NoBody, volunteerId)
    /\ IF volunteer = None
         THEN res' = Error(404, "Volunteer with the provided ID does not exist.")
         ELSE res' = Found(VolunteerJson(CHOOSE v \in volunteer : TRUE))
    /\ UNCHANGED <<storages, now, created>>

\* ---------------------------------------------------------- GET /volunteers
GetVolunteers ==
  LET volunteers == values(volunteersStorage) IN
  /\ req' = Request("GET /volunteers", NoBody, 0)
  /\ res' = Listed([i \in 1..Len(volunteers) |-> VolunteerJson(volunteers[i])])
  /\ UNCHANGED <<storages, now, created>>

\* ------------------------------------------------------------ POST /events
EventInputInvalid(body) ==
  \/ ~Truthy(body.title)
  \/ TypeOf(body.title) # "string"
  \/ ~Truthy(body.description)
  \/ TypeOf(body.description) # "string"
  \/ ~Truthy(body.dateTime)
  \/ ~Truthy(body.location)
  \/ TypeOf(body.location) # "string"
  \/ ~Truthy(body.organizerId)
  \/ TypeOf(body.organizerId) # "string"

PostEvents ==
  \E body \in EventBodies :
    /\ req' = Request("POST /events", body, 0)
    /\ IF EventInputInvalid(body)
         THEN /\ res' = Error(400, "Invalid input: types")
              /\ UNCHANGED <<storages, created, now>>
       ELSE \E id \in uuidv4 :
              LET event == Event(id, body.title, body.description,
                                 NewDate(body.dateTime), body.location,
                                 body.organizerId)
              IN /\ eventsStorage' = insert(eventsStorage, event.id, event)
                 /\ res' = Created(EventJson(event))
                 /\ created' = Remember(id, body, EventJson(event))
                 /\ now' = now + 1
                 /\ UNCHANGED <<volunteersStorage, registrationsStorage,
                                feedbacksStorage>>

\* ------------------------------------------------------------- GET /events
GetEvents ==
  LET events == values(eventsStorage) IN
  /\ req' = Request("GET /events", NoBody, 0)
  /\ res' = Listed([i \in 1..Len(events) |-> EventJson(events[i])])
  /\ UNCHANGED <<storages, now, created>>

\* ----------------------------------------------------- POST /registrations
RegistrationInputInvalid(body) ==
  \/ ~Truthy(body.eventId)
  \/ TypeOf(body.eventId) # "string"
  \/ ~Truthy(body.volunteerId)
  \/ TypeOf(body.volunteerId) # "string"
  \/ ~Truthy(body.status)
  \/ TypeOf(body.status) # "string"

\* A handler that writes the registration into the Events collection.
PostRegistrationsIntoEvents ==
  \E body \in RegistrationBodies :
    /\ req' = Request("POST /registrations", body, 0)
    /\ IF RegistrationInputInvalid(body)
         THEN /\ res' = Error(400, "Invalid input: types")
              /\ UNCHANGED <<storages, created, now>>
       ELSE \E id \in uuidv4 :
              LET registration == Registration(id, body.eventId,
                                               body.volunteerId, body.status)
              IN /\ eventsStorage' =
                      insert(eventsStorage, registration.id, registration)
                 /\ res' = Created(RegistrationJson(registration))
                 /\ created' =
                      Remember(id, body, RegistrationJson(registration))
                 /\ now' = now + 1
                 /\ UNCHANGED <<volunteersStorage, registrationsStorage,
                                feedbacksStorage>>

PostRegistrations ==
  \E body \in RegistrationBodies :
    /\ req' = Request("POST /registrations", body, 0)
    /\ IF RegistrationInputInvalid(body)
         THEN /\ res' = Error(400, "Invalid input: types")
              /\ UNCHANGED <<storages, created, now>>
       ELSE \E id \in uuidv4 :
              LET registration == Registration(id, body.eventId,
                                               body.volunteerId, body.status)
              IN /\ registrationsStorage' =
                      insert(registrationsStorage, registration.id,
                             registration)
                 /\ res' = Created(RegistrationJson(registration))
                 /\ created' =
                      Remember(id, body, RegistrationJson(registration))
                 /\ now' = now + 1
                 /\ UNCHANGED <<volunteersStorage, eventsStorage,
                                feedbacksStorage>>

\* ------------------------------------------------------ GET /registrations
GetRegistrations ==
  LET registrations == values(registrationsStorage) IN
  /\ req' = Request("GET /registrations", NoBody, 0)
  /\ res' = Listed([i \in 1..Len(registrations) |->
                      RegistrationJson(registrations[i])])
  /\ UNCHANGED <<storages, now, created>>

\* --------------------------------------------------------- POST /feedbacks
FeedbackInputInvalid(body) ==
  \/ ~Truthy(body.volunteerId)
  \/ TypeOf(body.volunteerId) # "string"
  \/ ~Truthy(body.eventId)
  \/ TypeOf(body.eventId) # "string"
  \/ ~Truthy(body.feedback)
  \/ TypeOf(body.feedback) # "string"
  \/ ~Truthy(body.rating)
  \/ TypeOf(body.rating) # "number"

PostFeedbacks ==
  \E body \in FeedbackBodies :
    /\ req' = Request("POST /feedbacks", body, 0)
    /\ IF FeedbackInputInvalid(body)
         THEN /\ res' = Error(400, "Invalid input: types")
              /\ UNCHANGED <<storages, created, now>>
       ELSE \E id \in uuidv4 :
              LET feedback == Feedback(id, body.volunteerId, body.eventId,
                                       body.feedback, body.rating)
              IN /\ feedbacksStorage' =
                      insert(feedbacksStorage, feedback.id, feedback)
                 /\ res' = Created(FeedbackJson(feedback))
                 /\ created' = Remember(id, body, FeedbackJson(feedback))
                 /\ now' = now + 1
                 /\ UNCHANGED <<volunteersStorage, eventsStorage,
                                registrationsStorage>>

\* ---------------------------------------------------------- GET /feedbacks
GetFeedbacks ==
  LET feedbacks == values(feedbacksStorage) IN
  /\ req' = Request("GET /feedbacks", NoBody, 0)
  /\ res' = Listed([i \in 1..Len(feedbacks) |-> FeedbackJson(feedbacks[i])])
  /\ UNCHANGED <<storages, now, created>>

Next ==
  \/ PostVolunteers
  \/ GetVolunteerById
  \/ GetVolunteers
  \/ PostEvents
  \/ GetEvents
  \/ PostRegistrations
  \/ GetRegistrations
  \/ PostFeedbacks
  \/ GetFeedbacks

Spec == Init /\ [][Next]_vars

\* ======================================================================
\* Properties.  The shapes below are those of section 3 of the
\* specification, stated independently of the handlers' own tests.
NonEmptyText(v) == v.type = "string" /\ Len(v.str) > 0
IsSequence(v) == v.type = "array"
IsNumber(v) == v.type = "number"
Missing(v) == v.type = "undefined" \/ (v.type = "string" /\ Len(v.str) = 0)

ListOps == {"GET /volunteers", "GET /events", "GET /registrations",
            "GET /feedbacks"}
ListOpOf(op) ==
  CASE op = "POST /volunteers"    -> "GET /volunteers"
    [] op = "POST /events"        -> "GET /events"
    [] op = "POST /registrations" -> "GET /registrations"
    [] op = "POST /feedbacks"     -> "GET /feedbacks"

\* The other three fields of a volunteer request are well shaped.
RestOfVolunteerShaped(body) ==
  /\ NonEmptyText(body.name)
  /\ NonEmptyText(body.contact)
  /\ IsSequence(body.skills)

\* ---------------------------------------------------------------------- C1
\* C1: in every reachable state no two distinct records of the Volunteers
\* collection have the same email value.
C1_NoTwoVolunteersShareAnEmail ==
  \A a \in DOMAIN volunteersStorage : \A b \in DOMAIN volunteersStorage :
    a # b => volunteersStorage[a].email # volunteersStorage[b].email

\* ---------------------------------------------------------------------- C2
\* C2: a POST /volunteers whose email equals the email of a stored volunteer
\* (its other fields being well shaped) is answered 400 with the conflict
\* error, and the Volunteers collection is the same after it as before.
C2_DuplicateEmailRejected ==
  [][(/\ req'.op = "POST /volunteers"
      /\ RestOfVolunteerShaped(req'.body)
      /\ \E k \in DOMAIN volunteersStorage :
           volunteersStorage[k].email = req'.body.email)
     => /\ res'.status = 400
        /\ res'.error = "Invalid input: same email already exists"
        /\ volunteersStorage' = volunteersStorage]_vars

\* ---------------------------------------------------------------------- C3
\* C3: a POST /volunteers in which name, email or contact is not a non-empty
\* text, or skills is not a sequence, is answered 400, and no stored
\* volunteer has such a field.
C3_IllShapedVolunteerRejected ==
  /\ (/\ req.op = "POST /volunteers"
      /\ \/ ~NonEmptyText(req.body.name)
         \/ ~NonEmptyText(req.body.email)
         \/ ~NonEmptyText(req.body.contact)
         \/ ~IsSequence(req.body.skills))
     => res.status = 400
  /\ \A k \in DOMAIN volunteersStorage :
       /\ NonEmptyText(volunteersStorage[k].name)
       /\ NonEmptyText(volunteersStorage[k].email)
       /\ NonEmptyText(volunteersStorage[k].contact)
       /\ IsSequence(volunteersStorage[k].skills)

\* ---------------------------------------------------------------------- C4
\* The value the record of create k has to carry in field f: the value the
\* request supplied.
Supplied(k, f) == created[k].body[f]

\* The same, the event's dateTime being the ISO form of the instant read
\* from the supplied value, or null when no instant can be read from it.
SuppliedOrParsed(k, f) ==
  IF created[k].op = "POST /events" /\ f = "dateTime"
    THEN DateToJSON(NewDate(created[k].body[f]))
    ELSE created[k].body[f]

\* Every record a create returned, every record a list response holds and
\* the record a GET /volunteers/:id response holds carry Expect(k, f) in each
\* field f of the request that created record k, and a list response holds
\* every record created in its collection.
RoundTrip(Expect(_, _)) ==
  /\ \A k \in DOMAIN created : \A f \in DOMAIN created[k].body :
       created[k].record[f] = Expect(k, f)
  /\ req.op \in ListOps =>
       /\ \A i \in 1..Len(res.list) :
            \A f \in DOMAIN created[res.list[i].id].body :
              res.list[i][f] = Expect(res.list[i].id, f)
       /\ \A k \in DOMAIN created :
            ListOpOf(created[k].op) = req.op =>
              \E i \in 1..Len(res.list) : res.list[i].id = k
  /\ (req.op = "GET /volunteers/:id" /\ res.status = 200) =>
       \A f \in DOMAIN created[req.id].body :
         res.record[f] = Expect(req.id, f)

\* C4 as claimed: every field supplied to an accepted create, the event's
\* dateTime included, comes back with the same value from the create, from
\* the list operation and from GET /volunteers/:id.
C4_EveryFieldRoundTrips == RoundTrip(Supplied)

\* C4 as amended: every supplied field comes back with the same value,
\* except the event's dateTime, which comes back as the ISO text of the
\* instant parsed from the supplied value, or as null when it does not parse.
C4_FieldsRoundTripDateTimeParsed == RoundTrip(SuppliedOrParsed)

C4_Witness ==
  /\ req.op = "GET /events"
  /\ \E i \in 1..Len(res.list) :
       /\ created[res.list[i].id].body.dateTime = JStr(Day2)
       /\ res.list[i].dateTime = JStr(Day2Iso)
  /\ \E k \in DOMAIN created : created[k].op = "POST /volunteers"

\* ---------------------------------------------------------------------- C5
\* A create request fails validation: a required field is missing, empty or
\* of the wrong type, or the volunteer's email is malformed.
FailsValidation(r) ==
  CASE r.op = "POST /volunteers" ->
         \/ ~NonEmptyText(r.body.name)
         \/ ~NonEmptyText(r.body.email)
         \/ ~NonEmptyText(r.body.contact)
         \/ ~IsSequence(r.body.skills)
         \/ ~emailRegex(r.body.email.str)
    [] r.op = "POST /events" ->
         \/ ~NonEmptyText(r.body.title)
         \/ ~NonEmptyText(r.body.description)
         \/ Missing(r.body.dateTime)
         \/ ~NonEmptyText(r.body.location)
         \/ ~NonEmptyText(r.body.organizerId)
    [] r.op = "POST /registrations" ->
         \/ ~NonEmptyText(r.body.eventId)
         \/ ~NonEmptyText(r.body.volunteerId)
         \/ ~NonEmptyText(r.body.status)
    [] r.op = "POST /feedbacks" ->
         \/ ~NonEmptyText(r.body.volunteerId)
         \/ ~NonEmptyText(r.body.eventId)
         \/ ~NonEmptyText(r.body.feedback)
         \/ ~IsNumber(r.body.rating)
    [] OTHER -> FALSE

\* C5: every create request that fails validation is answered 400 and
\* leaves all four collections as they were.
C5_InvalidCreateChangesNothing ==
  [][FailsValidation(req') =>
       res'.status = 400 /\ UNCHANGED storages]_vars

\* ---------------------------------------------------------------------- C6
\* The volunteers the accepted creates returned.
CreatedVolunteers ==
  {created[k].record : k \in {j \in DOMAIN created :
                                created[j].op = "POST /volunteers"}}

\* C6: a POST /volunteers with well-shaped fields whose email no stored
\* volunteer has is answered 201 and adds a record; and every response to
\* GET /volunteers holds exactly the volunteers created so far, none twice
\* and no two with the same id.
C6_DistinctValidVolunteersAllListed ==
  [][/\ (/\ req'.op = "POST /volunteers"
         /\ RestOfVolunteerShaped(req'.body)
         /\ NonEmptyText(req'.body.email)
         /\ emailRegex(req'.body.email.str)
         /\ \A k \in DOMAIN volunteersStorage :
              volunteersStorage[k].email # req'.body.email)
        => /\ res'.status = 201
           /\ Cardinality(DOMAIN volunteersStorage')
                = Cardinality(DOMAIN volunteersStorage) + 1
     /\ req'.op = "GET /volunteers"
        => /\ res'.status = 200
           /\ {res'.list[i] : i \in 1..Len(res'.list)} = CreatedVolunteers'
           /\ \A i \in 1..Len(res'.list) : \A j \in 1..Len(res'.list) :
                i # j => res'.list[i].id # res'.list[j].id]_vars

C6_Witness ==
  /\ req.op = "GET /volunteers"
  /\ Len(res.list) = 2
  /\ res.list[1].email = JStr(AnnMail)
  /\ res.list[2].email = JStr(BobMail)

\* ---------------------------------------------------------------------- C7
\* C7: GET /volunteers/:id is answered 200 with the record created under
\* that id when a volunteer was created under it, and 404 otherwise, and it
\* changes no collection.
C7_GetVolunteerById ==
  [][req'.op = "GET /volunteers/:id" =>
       /\ UNCHANGED storages
       /\ IF /\ req'.id \in DOMAIN created
             /\ created[req'.id].op = "POST /volunteers"
            THEN res'.status = 200 /\ res'.record = created[req'.id].record
            ELSE res'.status = 404 /\ res'.record = NoRecord]_vars

C7_Witness ==
  /\ req.op = "GET /volunteers/:id"
  /\ res.status = 200
  /\ res.record.id = req.id
  /\ eventsStorage # <<>>

\* ---------------------------------------------------------------------- C8
\* C8: in every reachable state every stored registration has attendedAt
\* null, and so has every registration a create returned.
C8_AttendedAtAlwaysNull ==
  /\ \A k \in DOMAIN registrationsStorage :
       registrationsStorage[k].attendedAt = JNull
  /\ \A k \in DOMAIN created :
       created[k].op = "POST /registrations" =>
         created[k].record.attendedAt = JNull

C8_Witness ==
  \E k \in DOMAIN registrationsStorage :
    registrationsStorage[k].status = JStr(Attended)

\* ---------------------------------------------------------------------- C9
Count(b) == IF b THEN 1 ELSE 0

\* The number of collections a step changes.
Changed ==
  Count(volunteersStorage' # volunteersStorage)
    + Count(eventsStorage' # eventsStorage)
    + Count(registrationsStorage' # registrationsStorage)
    + Count(feedbacksStorage' # feedbacksStorage)

\* The collection gained the record of the response and nothing else.
Gained(old, new) ==
  /\ res'.record.id \notin DOMAIN old
  /\ DOMAIN new = DOMAIN old \cup {res'.record.id}
  /\ \A k \in DOMAIN old : new[k] = old[k]

\* C9: every operation changes at most one collection; a create answered 201
\* adds one record to the collection of its entity and leaves the other
\* three unchanged; every list and get leaves all four unchanged.
C9_OneCollectionPerOperation ==
  [][/\ Changed <= 1
     /\ (req'.op = "POST /volunteers" /\ res'.status = 201) =>
          /\ Gained(volunteersStorage, volunteersStorage')
          /\ UNCHANGED <<eventsStorage, registrationsStorage, feedbacksStorage>>
     /\ (req'.op = "POST /events" /\ res'.status = 201) =>
          /\ Gained(eventsStorage, eventsStorage')
          /\ UNCHANGED <<volunteersStorage, registrationsStorage,
                         feedbacksStorage>>
     /\ (req'.op = "POST /registrations" /\ res'.status = 201) =>
          /\ Gained(registrationsStorage, registrationsStorage')
          /\ UNCHANGED <<volunteersStorage, eventsStorage, feedbacksStorage>>
     /\ (req'.op = "POST /feedbacks" /\ res'.status = 201) =>
          /\ Gained(feedbacksStorage, feedbacksStorage')
          /\ UNCHANGED <<volunteersStorage, eventsStorage,
                         registrationsStorage>>
     /\ req'.op \in ListOps \cup {"GET /volunteers/:id"} =>
          UNCHANGED storages]_vars

C9_Witness ==
  /\ req.op = "POST /registrations"
  /\ res.status = 201
  /\ volunteersStorage # <<>>

\* --------------------------------------------------------------------- C10
Kept(old, new) == \A k \in DOMAIN old : k \in DOMAIN new /\ new[k] = old[k]

\* C10: a record stored under an id stays under that id, unchanged, in
\* every later state, in each of the four collections.
C10_AppendOnly ==
  [][/\ Kept(volunteersStorage, volunteersStorage')
     /\ Kept(eventsStorage, eventsStorage')
     /\ Kept(registrationsStorage, registrationsStorage')
     /\ Kept(feedbacksStorage, feedbacksStorage')]_vars

C10_Witness ==
  /\ Cardinality(DOMAIN feedbacksStorage) = 2
  /\ res.status = 201

====
